---- MODULE Spec2Model ----
(***************************************************************************)
(* A model of the FacturationPro client of src/lib/index.ts: the rate      *)
(* limit counter (requestRemaining), the lastRequest date, the deferred    *)
(* checks armed with setTimeout, the response interceptors registered on   *)
(* the shared axios instance, and the promises of the endpoint methods.    *)
(* Times are in milliseconds.                                              *)
(***************************************************************************)
EXTENDS Integers, Sequences, FiniteSets

\* ------------------------------------------------------------------ bounds
MaxCalls == 2        \* endpoint calls issued in one behaviour
MaxTokenCalls == 1   \* token calls issued in one behaviour
MaxTicks == 4        \* clock advances in one behaviour

\* --------------------------------------------------------------- constants
DefaultRemaining == 600
Minute == 1000 * 60

Clients == {1, 2}

\* The clock advances in steps of a third of the window (ms).
Delays == {Minute \div 3}

\* A timer callback runs on time or a millisecond late.
Lateness == {0, 1}

\* The rate-limit values the server formats into the header.
HeaderInts == {0, 12}

\* ----------------------------------------------------------------- numbers
\* A JavaScript number: an integer or NaN.
Num(v) == [nan |-> FALSE, v |-> v]
NaN == [nan |-> TRUE, v |-> 0]

\* ----------------------------------------------------------------- strings
\* A header value: undefined, or a string (a sequence of characters).
Undefined == [present |-> FALSE, s |-> <<>>]
Str(s) == [present |-> TRUE, s |-> s]

DigitChars == <<"0", "1", "2", "3", "4", "5", "6", "7", "8", "9">>

IsDigit(ch) == \E i \in 1..10 : DigitChars[i] = ch

DigitVal(ch) == (CHOOSE i \in 1..10 : DigitChars[i] = ch) - 1

\* The decimal text of a natural number, as the server writes the header.
RECURSIVE Decimal(_)
Decimal(h) ==
  IF h < 10 THEN <<DigitChars[h + 1]>>
  ELSE Decimal(h \div 10) \o <<DigitChars[(h % 10) + 1]>>

\* String(x): undefined becomes the text "undefined".
ToString(x) ==
  IF x.present THEN x.s ELSE <<"u", "n", "d", "e", "f", "i", "n", "e", "d">>

\* JavaScript truthiness of a header value: undefined and "" are falsy.
Truthy(x) == x.present /\ Len(x.s) > 0

RECURSIVE SkipSpaces(_)
SkipSpaces(s) ==
  IF Len(s) > 0 /\ Head(s) = " " THEN SkipSpaces(Tail(s)) ELSE s

\* The value of the longest prefix of digits of s, continuing from acc.
RECURSIVE DigitsValue(_, _)
DigitsValue(s, acc) ==
  IF Len(s) > 0 /\ IsDigit(Head(s))
  THEN DigitsValue(Tail(s), acc * 10 + DigitVal(Head(s)))
  ELSE acc

\* parseInt(x, 10): leading blanks, an optional sign, then digits; NaN when
\* no digit follows.
parseInt(x) ==
  LET t    == SkipSpaces(ToString(x))
      neg  == Len(t) > 0 /\ Head(t) = "-"
      sgn  == Len(t) > 0 /\ Head(t) \in {"-", "+"}
      body == IF sgn THEN Tail(t) ELSE t
  IN  IF Len(body) > 0 /\ IsDigit(Head(body))
      THEN Num(IF neg THEN 0 - DigitsValue(body, 0) ELSE DigitsValue(body, 0))
      ELSE NaN

\* ------------------------------------------------------------------ inputs
\* What a response may carry under x-ratelimit-remaining: the decimal text of
\* an integer h, or no such header.
NoHeader == [int |-> FALSE, h |-> 0, rl |-> Undefined]

HeaderInputs ==
  {[int |-> TRUE, h |-> h, rl |-> Str(Decimal(h))] : h \in HeaderInts} \cup {NoHeader}

\* An axios response, as far as the interceptor reads it.
Response(in) == [hasHeaders |-> TRUE, rl |-> in.rl, data |-> "data"]

\* An error handed to the error interceptor.
HttpError(in) ==
  [name |-> "AxiosError", isAxiosError |-> TRUE, hasResponse |-> TRUE,
   hasHeaders |-> TRUE, rl |-> in.rl]
NetworkError ==
  [name |-> "AxiosError", isAxiosError |-> TRUE, hasResponse |-> FALSE,
   hasHeaders |-> FALSE, rl |-> Undefined]
\* An error that axios did not create (a cancellation, a thrown Error).
PlainError ==
  [name |-> "Error", isAxiosError |-> FALSE, hasResponse |-> FALSE,
   hasHeaders |-> FALSE, rl |-> Undefined]
NoError ==
  [name |-> "none", isAxiosError |-> FALSE, hasResponse |-> FALSE,
   hasHeaders |-> FALSE, rl |-> Undefined]
NoResponse == [hasHeaders |-> FALSE, rl |-> Undefined, data |-> "none"]

\* The endpoint methods: each issues one axios request.
JsonMethods ==
  {"getCustomersByFirmId", "createCustomer", "getInvoicesByFirmId",
   "getInvoiceById", "createInvoice", "createCredit"}
Methods == JsonMethods \cup {"getFirms", "download"}

\* What a method does with the settled axios promise.
Kind(m) == IF m \in JsonMethods THEN "json" ELSE m

VARIABLES
  created,           \* the client objects the factory has returned
  interceptors,      \* the response interceptors of the shared axios instance
  requestRemaining,  \* per client: the tracked budget
  lastRequest,       \* per client: the time value of the lastRequest Date
  timers,            \* the armed deferred checks, in arming order
  calls,             \* the endpoint calls whose request is in flight
  issued,            \* endpoint calls issued so far
  now,               \* the clock (ms)
  tokenCalls,        \* token calls issued so far
  ticks,             \* clock advances so far
  responseAt,        \* per client: time of the last response its interceptor handled
  last               \* the step just taken

vars ==
  <<created, interceptors, requestRemaining, lastRequest, timers, calls, issued,
    now, tokenCalls, ticks, responseAt, last>>

\* ---------------------------------------------------------------- promises
Pending == [st |-> "pending", val |-> "none", err |-> NoError]
Fulfilled(val) == [st |-> "fulfilled", val |-> val, err |-> NoError]
Rejected(e) == [st |-> "rejected", val |-> "none", err |-> e]

\* The record of the step just taken.
Step(op, c) ==
  [op |-> op, c |-> c, int |-> FALSE, h |-> 0, err |-> NoError, n |-> 0,
   ret |-> FALSE, reset |-> FALSE, promise |-> Pending]

\* ------------------------------------------------------------ interceptor
\* Success handler: the counter is read from a truthy header.
OnFulfilledRemaining(rr, response) ==
  IF response.hasHeaders /\ Truthy(response.rl) THEN parseInt(response.rl) ELSE rr

\* Success handler: this.lastRequest = new Date().
OnFulfilledLastRequest(lr, t) == t

\* Success handler: return response.
OnFulfilledReturn(response) == [st |-> "fulfilled", resp |-> response, err |-> NoError]

\* A handler that forgets the header on the error path.
OnRejectedRemainingSkipped(rr, error) == rr

\* Error handler: the counter is read whenever the error has response headers.
OnRejectedRemaining(rr, error) ==
  IF error.isAxiosError /\ error.hasResponse /\ error.hasHeaders
  THEN parseInt(error.rl)
  ELSE rr

\* Error handler: lastRequest is not assigned.
OnRejectedLastRequest(lr, t) == lr

\* A handler that returns the error instead of rejecting with it.
OnRejectedReturnSwallowed(error) == [st |-> "fulfilled", resp |-> NoResponse, err |-> NoError]

\* Error handler: return Promise.reject(error).
OnRejectedReturn(error) == [st |-> "rejected", resp |-> NoResponse, err |-> error]

\* The settled request passes through k registered interceptors in turn.
RECURSIVE Through(_, _)
Through(p, k) ==
  IF k = 0 THEN p
  ELSE Through(IF p.st = "fulfilled" THEN OnFulfilledReturn(p.resp)
               ELSE OnRejectedReturn(p.err), k - 1)

\* resetRequestRemainingTimeout: one deferred check per handled settlement.
Arm(c, t) == [owner |-> c, due |-> t + Minute]

ArmAll(chain, t) == [i \in 1..Len(chain) |-> Arm(chain[i], t)]

InChain(chain, c) == \E i \in 1..Len(chain) : chain[i] = c

\* ----------------------------------------------------------------- methods
responseHandler(axiosResponse) == axiosResponse.data

\* The promise an endpoint method returns, from the settled axios promise p.
MethodResult(kind, p) ==
  IF p.st = "rejected" THEN Rejected(p.err)
  ELSE IF kind = "download" THEN Fulfilled("response")
  ELSE IF kind = "getFirms"
       THEN Fulfilled(IF responseHandler(p.resp) = "none" THEN "[]" ELSE "firms")
  ELSE Fulfilled(responseHandler(p.resp))

\* A token call that is counted twice.
DecrementTwice(rr) == IF rr.nan THEN NaN ELSE Num(rr.v - 2)

\* requestRemaining -= 1
Decrement(rr) == IF rr.nan THEN NaN ELSE Num(rr.v - 1)

\* A strict comparison in place of >=.
checkStrict(rr, requestNumber) ==
  (~rr.nan) /\ rr.v > requestNumber

checkFacturationProRateLimit(rr, requestNumber) ==
  (~rr.nan) /\ rr.v >= requestNumber

CheckArgs == {12, DefaultRemaining}

\* The deferred check: setTime moves lastRequest one minute on and returns it.
LastRequestAddMinute(lr) == lr + Minute

CheckResets(lr, t) == LastRequestAddMinute(lr) < t

Remove(seq, i) == [j \in 1..(Len(seq) - 1) |-> IF j < i THEN seq[j] ELSE seq[j + 1]]

\* -------------------------------------------------------------------- Init
Init ==
  /\ created = {1}
  /\ interceptors = <<1>>
  /\ requestRemaining = [c \in Clients |-> Num(DefaultRemaining)]
  /\ lastRequest = [c \in Clients |-> 0]
  /\ timers = <<>>
  /\ calls = <<>>
  /\ issued = 0
  /\ now = 0
  /\ tokenCalls = 0
  /\ ticks = 0
  /\ responseAt = [c \in Clients |-> -1]
  /\ last = Step("init", 1)

\* ----------------------------------------------------------------- actions
\* create(options): a new client; its constructor registers an interceptor.
Create(c) ==
  /\ c \notin created
  /\ created' = created \cup {c}
  /\ interceptors' = Append(interceptors, c)
  /\ requestRemaining' = [requestRemaining EXCEPT ![c] = Num(DefaultRemaining)]
  /\ lastRequest' = [lastRequest EXCEPT ![c] = now]
  /\ last' = Step("create", c)
  /\ UNCHANGED <<timers, calls, issued, now, tokenCalls, ticks, responseAt>>

\* An endpoint method (or download) issues its axios request.
Call(c, m) ==
  /\ c \in created
  /\ issued < MaxCalls
  /\ issued' = issued + 1
  /\ calls' = Append(calls, [client |-> c, kind |-> Kind(m), chain |-> interceptors])
  /\ last' = Step("call", c)
  /\ UNCHANGED <<created, interceptors, requestRemaining, lastRequest, timers, now,
                 tokenCalls, ticks, responseAt>>

getTokenFromUri(c) ==
  /\ c \in created
  /\ tokenCalls < MaxTokenCalls
  /\ tokenCalls' = tokenCalls + 1
  /\ requestRemaining' = [requestRemaining EXCEPT ![c] = Decrement(@)]
  /\ last' = Step("token", c)
  /\ UNCHANGED <<created, interceptors, lastRequest, timers, calls, issued, now, ticks,
                 responseAt>>

getNewAccessToken(c) ==
  /\ c \in created
  /\ tokenCalls < MaxTokenCalls
  /\ tokenCalls' = tokenCalls + 1
  /\ requestRemaining' = [requestRemaining EXCEPT ![c] = Decrement(@)]
  /\ last' = Step("token", c)
  /\ UNCHANGED <<created, interceptors, lastRequest, timers, calls, issued, now, ticks,
                 responseAt>>

CheckRateLimit(c, n) ==
  /\ c \in created
  /\ last' = [Step("check", c) EXCEPT
                !.n = n, !.ret = checkFacturationProRateLimit(requestRemaining[c], n)]
  /\ UNCHANGED <<created, interceptors, requestRemaining, lastRequest, timers, calls, issued,
                 now, tokenCalls, ticks, responseAt>>

\* A success response to call i runs the success handlers of its chain.
RespondSuccess(i, in) ==
  LET call  == calls[i]
      resp  == Response(in)
      chain == call.chain
  IN  /\ requestRemaining' =
           [c \in Clients |->
              IF InChain(chain, c) THEN OnFulfilledRemaining(requestRemaining[c], resp)
              ELSE requestRemaining[c]]
      /\ lastRequest' =
           [c \in Clients |->
              IF InChain(chain, c) THEN OnFulfilledLastRequest(lastRequest[c], now)
              ELSE lastRequest[c]]
      /\ timers' = timers \o ArmAll(chain, now)
      /\ calls' = Remove(calls, i)
      /\ responseAt' = [c \in Clients |-> IF InChain(chain, c) THEN now ELSE responseAt[c]]
      /\ last' = [Step("fulfilled", call.client) EXCEPT
                    !.int = in.int, !.h = in.h,
                    !.promise = MethodResult(call.kind,
                                  Through(OnFulfilledReturn(resp), Len(chain) - 1))]
      /\ UNCHANGED <<created, interceptors, issued, now, tokenCalls, ticks>>

\* A failure of call i runs the error handlers of its chain.
RespondError(i, in, e) ==
  LET call  == calls[i]
      chain == call.chain
  IN  /\ requestRemaining' =
           [c \in Clients |->
              IF InChain(chain, c) THEN OnRejectedRemaining(requestRemaining[c], e)
              ELSE requestRemaining[c]]
      /\ lastRequest' =
           [c \in Clients |->
              IF InChain(chain, c) THEN OnRejectedLastRequest(lastRequest[c], now)
              ELSE lastRequest[c]]
      /\ timers' = timers \o ArmAll(chain, now)
      /\ calls' = Remove(calls, i)
      /\ responseAt' =
           [c \in Clients |->
              IF InChain(chain, c) /\ e.hasResponse THEN now ELSE responseAt[c]]
      /\ last' = [Step("rejected", call.client) EXCEPT
                    !.int = in.int, !.h = in.h, !.err = e,
                    !.promise = MethodResult(call.kind,
                                  Through(OnRejectedReturn(e), Len(chain) - 1))]
      /\ UNCHANGED <<created, interceptors, issued, now, tokenCalls, ticks>>

\* The oldest deferred check fires once its delay has passed; its callback
\* reads the clock `late` ms after that.
FireTimer(late) ==
  /\ Len(timers) > 0
  /\ Head(timers).due <= now
  /\ now' = now + late
  /\ LET c == Head(timers).owner
     IN  /\ lastRequest' = [lastRequest EXCEPT ![c] = LastRequestAddMinute(@)]
         /\ requestRemaining' =
              [requestRemaining EXCEPT ![c] =
                 IF CheckResets(lastRequest[c], now') THEN Num(DefaultRemaining) ELSE @]
         /\ last' = [Step("timer", c) EXCEPT !.reset = CheckResets(lastRequest[c], now')]
  /\ timers' = Tail(timers)
  /\ UNCHANGED <<created, interceptors, calls, issued, tokenCalls, ticks, responseAt>>

\* Time passes while no deferred check is due.
Tick(d) ==
  /\ ticks < MaxTicks
  /\ \A k \in 1..Len(timers) : timers[k].due > now
  /\ ticks' = ticks + 1
  /\ now' = now + d
  /\ last' = Step("tick", 1)
  /\ UNCHANGED <<created, interceptors, requestRemaining, lastRequest, timers, calls, issued,
                 tokenCalls, responseAt>>

Next ==
  \/ \E c \in Clients, m \in Methods : Call(c, m)
  \/ \E c \in Clients : getTokenFromUri(c)
  \/ \E c \in Clients : getNewAccessToken(c)
  \/ \E c \in Clients, n \in CheckArgs : CheckRateLimit(c, n)
  \/ \E i \in 1..Len(calls), in \in HeaderInputs : RespondSuccess(i, in)
  \/ \E i \in 1..Len(calls), in \in HeaderInputs : RespondError(i, in, HttpError(in))
  \/ \E i \in 1..Len(calls), e \in {NetworkError, PlainError} :
       RespondError(i, NoHeader, e)
  \/ \E late \in Lateness : FireTimer(late)
  \/ \E d \in Delays : Tick(d)

NextTwo ==
  \/ \E c \in Clients : Create(c)
  \/ Next

\* One client object.
Spec == Init /\ [][Next]_vars

\* The factory is called a second time at some point.
SpecTwo == Init /\ [][NextTwo]_vars

\* ------------------------------------------------------------------ claims
TimersOf(seq, c) == SelectSeq(seq, LAMBDA t : t.owner = c)

IsResponse(l) == l.op = "fulfilled" \/ (l.op = "rejected" /\ l.err.hasResponse)

\* C1: once every armed deferred check has fired, at least 60 seconds after
\* the last response handled by the interceptor and with no token call made,
\* requestRemaining equals 600.
C1_ResetAfterQuietMinute ==
  \A c \in created :
    (/\ TimersOf(timers, c) = <<>>
     /\ responseAt[c] >= 0
     /\ now >= responseAt[c] + Minute
     /\ tokenCalls = 0)
      => requestRemaining[c] = Num(DefaultRemaining)

\* C2: a deferred check that has just set requestRemaining to 600 fired with
\* no response (success or error) handled by the interceptor in the 60
\* seconds before it.
C2_ResetOnlyAfterQuietMinute ==
  (last.op = "timer" /\ last.reset)
    => (responseAt[last.c] < 0 \/ responseAt[last.c] + Minute <= now)

\* C3: right after the interceptor has handled a response, success or error,
\* whose x-ratelimit-remaining header is the decimal text of the integer h,
\* requestRemaining equals h.
C3_HeaderSetsRemaining ==
  ((last.op = "fulfilled" \/ last.op = "rejected") /\ last.int)
    => requestRemaining[last.c] = Num(last.h)

C3_Witness ==
  /\ last.op = "rejected"
  /\ last.int
  /\ last.h = 0
  /\ tokenCalls > 0
  /\ requestRemaining[last.c] = Num(0)

\* C4: right after the interceptor has handled a response, success or error,
\* lastRequest is the time at which it was handled.
C4_ResponseSetsLastRequest ==
  IsResponse(last) => lastRequest[last.c] = now

\* C5: requestRemaining is an integer in every reachable state, never NaN.
C5_RemainingIsInteger ==
  \A c \in created : ~requestRemaining[c].nan

\* C6: checkFacturationProRateLimit(n) returns true exactly when
\* requestRemaining is a number that is at least n, and the call changes
\* neither requestRemaining, lastRequest nor the armed deferred checks.
C6_CheckRateLimit ==
  [][last'.op = "check" =>
       /\ last'.ret <=> (/\ ~requestRemaining[last'.c].nan
                         /\ requestRemaining[last'.c].v >= last'.n)
       /\ UNCHANGED <<requestRemaining, lastRequest, timers>>]_vars

C6_Witness ==
  /\ last.op = "check"
  /\ last.n = 12
  /\ requestRemaining[last.c] = Num(12)
  /\ last.ret

\* C7 as stated: a call of any public method (a token method, an endpoint
\* method, download, checkFacturationProRateLimit) leaves requestRemaining and
\* lastRequest unchanged.
C7_OnlyInterceptorUpdates ==
  [][last'.op \in {"call", "token", "check"} =>
       UNCHANGED <<requestRemaining, lastRequest>>]_vars

\* C7 as amended: a call of an endpoint method, of download or of
\* checkFacturationProRateLimit leaves requestRemaining and lastRequest
\* unchanged; a call of getTokenFromUri or getNewAccessToken leaves
\* lastRequest unchanged and lowers the caller's requestRemaining by one (NaN
\* stays NaN).
C7_CallsFrame ==
  [][/\ last'.op \in {"call", "check"} => UNCHANGED <<requestRemaining, lastRequest>>
     /\ last'.op = "token" =>
          /\ lastRequest' = lastRequest
          /\ \A c \in Clients :
               requestRemaining'[c] =
                 IF c = last'.c /\ ~requestRemaining[c].nan
                 THEN Num(requestRemaining[c].v - 1)
                 ELSE requestRemaining[c]]_vars

C7_Witness ==
  /\ last.op = "token"
  /\ requestRemaining[last.c] = Num(11)

\* C8: when the request of an endpoint method fails, the method's promise is
\* rejected with the very error the interceptor received, the call issues no
\* further request, and a failure that carries no response changes neither
\* requestRemaining nor lastRequest while it is handled.
C8_ErrorPropagates ==
  [][last'.op = "rejected" =>
       /\ last'.promise.st = "rejected"
       /\ last'.promise.err = last'.err
       /\ issued' = issued
       /\ Len(calls') = Len(calls) - 1
       /\ ~last'.err.hasResponse =>
            UNCHANGED <<requestRemaining, lastRequest>>]_vars

C8_Witness ==
  /\ last.op = "rejected"
  /\ last.err = NetworkError
  /\ last.promise = Rejected(NetworkError)
  /\ requestRemaining[last.c] = Num(12)

\* C9: a deferred check leaves lastRequest unchanged when it fires.
C9_CheckKeepsLastRequest ==
  [][last'.op = "timer" => lastRequest' = lastRequest]_vars

\* C10: a response to a request issued through one client changes neither
\* requestRemaining nor lastRequest of another client and arms no deferred
\* check on it.
C10_ClientsIsolated ==
  [][\A b \in created :
       ((last'.op = "fulfilled" \/ last'.op = "rejected") /\ last'.c # b) =>
         /\ requestRemaining'[b] = requestRemaining[b]
         /\ lastRequest'[b] = lastRequest[b]
         /\ TimersOf(timers', b) = TimersOf(timers, b)]_vars

====
